---- MODULE Spec2Model ----
(***************************************************************************)
(* The keep-alive container (vue/src/core/components/keep-alive.js), the   *)
(* insert/destroy hooks that activate and deactivate kept-alive instances  *)
(* (vue/src/core/vdom/create-component.js) and the same-node test of the   *)
(* patch engine (vue/src/core/vdom/patch.js), as quoted in the README.     *)
(***************************************************************************)
EXTENDS Integers, Sequences, FiniteSets, TLC

\* ------------------------------------------------------------------ bounds
\* Instances the host may create in one behaviour of Spec (the container
\* with its props changing) and of SpecMax (the container with fixed props).
MaxInst == 2
MaxCapInst == 3
\* Instances the host may create in one behaviour of SpecView (the routed
\* application, pages and nested pages).
MaxViewInst == 5

\* `const x = v`: v is evaluated once and handed to F.
Let(v, F(_)) == CHOOSE r \in {F(x) : x \in {v}} : TRUE

\* ------------------------------------------------------- values and inputs
\* vnode.key == null, an absent name, an absent componentOptions.tag
NoKey == ""
NoName == ""
\* vnode.componentInstance === undefined
NoInst == 0

\* The components of the demo: Home.vue, A.vue, B.vue, and a component that
\* declares no name and is rendered by h(component) (no componentOptions.tag).
\* cid is the constructor id, name is Ctor.options.name, tag is
\* componentOptions.tag.
Comps == {"Home", "A", "B", "Anon"}

\* Home1.vue and Home2.vue are rendered by the view slot inside Home.vue,
\* never as the child of the container.
NestedComps == {"Home1", "Home2"}

Ctor(c) ==
    CASE c = "Home"  -> [cid |-> 1, name |-> "home", tag |-> ""]
      [] c = "A"     -> [cid |-> 2, name |-> "page-a", tag |-> ""]
      [] c = "B"     -> [cid |-> 3, name |-> "page-b", tag |-> ""]
      [] c = "Home1" -> [cid |-> 5, name |-> "home1", tag |-> ""]
      [] c = "Home2" -> [cid |-> 6, name |-> "home2", tag |-> ""]
      [] OTHER       -> [cid |-> 4, name |-> NoName, tag |-> ""]

\* Explicit keys a caller may put on the child: the route path (the README's
\* :key="$route.path"), and a key that reads like a constructor id.
ExplicitKeys == {"/pageA", "1"}

\* The component that is rendered under explicit keys (router.js maps two
\* paths to A.vue).
KeyedComps == {"A"}

\* The key keep-alive derives for a child (render, the `key` constant).
DerivedKey(c, vkey) ==
    IF vkey = NoKey
      THEN ToString(Ctor(c).cid) \o
           (IF Ctor(c).tag # "" THEN "::" \o Ctor(c).tag ELSE "")
      ELSE vkey

AllKeys == {DerivedKey(c, NoKey) : c \in Comps} \cup ExplicitKeys

\* The order in which `for (const key in cache)` visits the properties.
KeyOrder == <<"1", "2", "3", "4", "/pageA">>

\* The tag the host gives a component vnode: vue-component-<cid>[-<name>].
VnodeTag(c) ==
    "vue-component-" \o ToString(Ctor(c).cid) \o
    (IF Ctor(c).name # NoName THEN "-" \o Ctor(c).name
     ELSE IF Ctor(c).tag # "" THEN "-" \o Ctor(c).tag ELSE "")

\* A vnode: kind "null" is no vnode at all (null / undefined), "plain" is a
\* node that is not component-backed (an element, or the empty placeholder),
\* "comp" is a component vnode.
NullVnode == [kind |-> "null", comp |-> "", key |-> NoKey, inst |-> NoInst,
              keepAlive |-> FALSE]
PlainVnode == [kind |-> "plain", comp |-> "", key |-> NoKey, inst |-> NoInst,
               keepAlive |-> FALSE]
CompVnode(c, k) == [kind |-> "comp", comp |-> c, key |-> k, inst |-> NoInst,
                    keepAlive |-> FALSE]

\* What the enclosing slot offers the container in a render pass.
Children ==
    {PlainVnode} \cup {CompVnode(c, NoKey) : c \in Comps}
                 \cup {CompVnode(c, k) : c \in KeyedComps, k \in ExplicitKeys}

\* The children offered while the props change: B.vue is left out, it
\* differs from A.vue by its name only and both names match /page-/.
FilteredChildren == {ch \in Children : ch.comp # "B"}

\* include / exclude: unset, a comma-delimited string (held as its segments),
\* an array of names, or a regular expression (held as its source). The
\* values are the README's :include="['home']" and :exclude="/page-/".
NoPattern == [kind |-> "unset", list |-> <<>>, re |-> ""]
IncludeValues == {
    NoPattern,
    [kind |-> "array", list |-> <<"home">>, re |-> ""] }
ExcludeValues == {
    NoPattern,
    [kind |-> "regexp", list |-> <<>>, re |-> "page-"] }

\* max: unset, a number, or a numeric string.
NoMax == [kind |-> "unset", n |-> 0]
MaxValues == {
    NoMax,
    [kind |-> "number", n |-> 1],
    [kind |-> "number", n |-> 2],
    [kind |-> "string", n |-> 0] }

\* ------------------------------------------------------------ the router
\* $route is the current path; NoRoute is the application without a router
\* (the container is handed its child directly).
NoRoute == ""
NoComp == ""
Routes == {"/", "/home1", "/home2", "/pageA", "/pageB"}

\* route.matched: the components of the matched records, outermost first
\* (router.js: Home with the children home1 and home2; pageA and pageB both
\* map to A.vue).
Matched(rt) ==
    CASE rt = "/"      -> <<"Home">>
      [] rt = "/home1" -> <<"Home", "Home1">>
      [] rt = "/home2" -> <<"Home", "Home2">>
      [] rt = "/pageA" -> <<"A">>
      [] rt = "/pageB" -> <<"A">>
      [] OTHER         -> <<>>

\* Home.vue's template holds a <router-view/>; the other pages hold none.
HasViewSlot(c) == c = "Home"

\* parent._routerViewCache[name] (NoComp: unset or null) and the node the
\* slot rendered last; the contexts are the root (NoInst) and the instances.
NoView == [cached |-> NoComp, shown |-> NullVnode]
NoViews == <<>>
ViewOf(vs, ctx) == IF ctx \in DOMAIN vs THEN vs[ctx] ELSE NoView
SetView(vs, ctx, v) == (ctx :> v) @@ vs

VARIABLES
    include, exclude, max,   \* the container's props
    cache, keys,             \* this.cache, this.keys
    _vnode,                  \* this._vnode: the node the container displays
    slot,                    \* this.$slots.default: the child offered last
    insts,                   \* the component instances the host has created
    contextMounted,          \* context._isMounted of the enclosing component
    alive,                   \* the container has not been torn down
    fired,                   \* lifecycle callbacks fired by the last step
    threw,                   \* the last step raised a TypeError
    last,                    \* the last operation and what it did
    route,                   \* $route: the current path (NoRoute: no router)
    views                    \* per context, its _routerViewCache entry and
                             \* the node its view slot rendered last

vars == <<include, exclude, max, cache, keys, _vnode, slot, insts,
          contextMounted, alive, fired, threw, last, route, views>>

\* ------------------------------------------------- component instances
\* _inactive is null until the first activation, then true or false.
NewInstance(c) == [comp |-> c, parent |-> NoInst, mounted |-> FALSE,
                   inactive |-> "null", directInactive |-> FALSE,
                   destroyed |-> FALSE]

\* A world is what the hooks read and write while a step runs: the
\* instances, the callbacks fired so far, the queue of deferred activations,
\* the instance whose template is being patched (activeInstance), the
\* current route and the view caches.
World(is) == [insts |-> is, fired |-> <<>>, queue |-> <<>>,
              activeInstance |-> NoInst, route |-> route, views |-> views]

callHook(w, vm, hook) == [w EXCEPT !.fired = Append(@, <<hook, vm>>)]

\* vm.$children, in creation order; $destroy takes an instance out of its
\* parent's $children.
RECURSIVE ChildrenFrom(_, _, _)
ChildrenFrom(is, vm, i) ==
    IF i > Len(is) THEN <<>>
    ELSE (IF is[i].parent = vm /\ ~is[i].destroyed THEN <<i>> ELSE <<>>)
         \o ChildrenFrom(is, vm, i + 1)

children(is, vm) == ChildrenFrom(is, vm, 1)

\* isInInactiveTree: some ancestor of vm has _inactive set.
RECURSIVE isInInactiveTree(_, _)
isInInactiveTree(is, vm) ==
    LET p == is[vm].parent
    IN  IF p = NoInst THEN FALSE
        ELSE IF is[p].inactive = "true" THEN TRUE
        ELSE isInInactiveTree(is, p)

RECURSIVE activateChildComponent(_, _, _)
RECURSIVE ActivateAll(_, _)
ActivateAll(w, cs) ==
    IF cs = <<>> THEN w
    ELSE ActivateAll(activateChildComponent(w, Head(cs), FALSE), Tail(cs))

\* activateChildComponent without the test of _directInactive: propagation
\* from an ancestor reactivates whatever is inactive.
activateChildComponent_NoDirectTest(w, vm, direct) ==
    LET w1 == IF direct THEN [w EXCEPT !.insts[vm].directInactive = FALSE] ELSE w
    IN  IF direct /\ isInInactiveTree(w1.insts, vm) THEN w1
        ELSE IF w1.insts[vm].inactive \in {"true", "null"}
          THEN LET w2 == [w1 EXCEPT !.insts[vm].inactive = "false"]
                   w3 == ActivateAll(w2, children(w2.insts, vm))
               IN  callHook(w3, vm, "activated")
          ELSE w1

\* activateChildComponent without the test of _inactive: it fires whatever
\* the state is.
activateChildComponent_Always(w, vm, direct) ==
    LET w1 == IF direct THEN [w EXCEPT !.insts[vm].directInactive = FALSE] ELSE w
    IN  IF direct /\ isInInactiveTree(w1.insts, vm) THEN w1
        ELSE IF ~direct /\ w1.insts[vm].directInactive THEN w1
        ELSE LET w2 == [w1 EXCEPT !.insts[vm].inactive = "false"]
                 w3 == ActivateAll(w2, children(w2.insts, vm))
             IN  callHook(w3, vm, "activated")

activateChildComponent(w, vm, direct) ==
    LET w1 == IF direct THEN [w EXCEPT !.insts[vm].directInactive = FALSE] ELSE w
    IN  IF direct /\ isInInactiveTree(w1.insts, vm) THEN w1
        ELSE IF ~direct /\ w1.insts[vm].directInactive THEN w1
        ELSE IF w1.insts[vm].inactive \in {"true", "null"}
          THEN LET w2 == [w1 EXCEPT !.insts[vm].inactive = "false"]
                   w3 == ActivateAll(w2, children(w2.insts, vm))
               IN  callHook(w3, vm, "activated")
          ELSE w1

RECURSIVE deactivateChildComponent(_, _, _)
RECURSIVE DeactivateAll(_, _)
DeactivateAll(w, cs) ==
    IF cs = <<>> THEN w
    ELSE DeactivateAll(deactivateChildComponent(w, Head(cs), FALSE), Tail(cs))

\* deactivateChildComponent firing the callback before it visits the
\* children.
deactivateChildComponent_ParentFirst(w, vm, direct) ==
    LET w1 == IF direct THEN [w EXCEPT !.insts[vm].directInactive = TRUE] ELSE w
    IN  IF direct /\ isInInactiveTree(w1.insts, vm) THEN w1
        ELSE IF w1.insts[vm].inactive # "true"
          THEN LET w2 == [w1 EXCEPT !.insts[vm].inactive = "true"]
                   w3 == callHook(w2, vm, "deactivated")
               IN  DeactivateAll(w3, children(w3.insts, vm))
          ELSE w1

\* deactivateChildComponent without the loop over $children.
deactivateChildComponent_NoChildren(w, vm, direct) ==
    LET w1 == IF direct THEN [w EXCEPT !.insts[vm].directInactive = TRUE] ELSE w
    IN  IF direct /\ isInInactiveTree(w1.insts, vm) THEN w1
        ELSE IF w1.insts[vm].inactive # "true"
          THEN callHook([w1 EXCEPT !.insts[vm].inactive = "true"], vm, "deactivated")
          ELSE w1

\* deactivateChildComponent without the test of _inactive.
deactivateChildComponent_NoTest(w, vm, direct) ==
    LET w1 == IF direct THEN [w EXCEPT !.insts[vm].directInactive = TRUE] ELSE w
    IN  IF direct /\ isInInactiveTree(w1.insts, vm) THEN w1
        ELSE LET w2 == [w1 EXCEPT !.insts[vm].inactive = "true"]
                 w3 == DeactivateAll(w2, children(w2.insts, vm))
             IN  callHook(w3, vm, "deactivated")

\* !vm._inactive holds for null and for false.
deactivateChildComponent(w, vm, direct) ==
    LET w1 == IF direct THEN [w EXCEPT !.insts[vm].directInactive = TRUE] ELSE w
    IN  IF direct /\ isInInactiveTree(w1.insts, vm) THEN w1
        ELSE IF w1.insts[vm].inactive # "true"
          THEN LET w2 == [w1 EXCEPT !.insts[vm].inactive = "true"]
                   w3 == DeactivateAll(w2, children(w2.insts, vm))
               IN  callHook(w3, vm, "deactivated")
          ELSE w1

\* vm.$destroy(): a second request is ignored; the instances of the
\* template are destroyed before the destroyed callback fires.
RECURSIVE Destroy(_, _)
RECURSIVE DestroyAll(_, _)
DestroyAll(w, cs) ==
    IF cs = <<>> THEN w
    ELSE DestroyAll(Destroy(w, Head(cs)), Tail(cs))

Destroy(w, vm) ==
    IF w.insts[vm].destroyed THEN w
    ELSE callHook(DestroyAll([w EXCEPT !.insts[vm].destroyed = TRUE],
                             children(w.insts, vm)),
                  vm, "destroyed")

\* queueActivatedComponent: activation waits for the end of the flush;
\* _inactive is cleared at once, so that a render function can tell whether
\* it is in an inactive tree.
queueActivatedComponent(w, vm) ==
    [w EXCEPT !.insts[vm].inactive = "false", !.queue = Append(@, vm)]

\* The insert hook without the test of context._isMounted: it always
\* activates at once.
insert_Immediate(w, vnode, ctxMounted) ==
    LET vm == vnode.inst
        w1 == IF ~w.insts[vm].mounted
                THEN callHook([w EXCEPT !.insts[vm].mounted = TRUE], vm, "mounted")
                ELSE w
    IN  IF vnode.keepAlive THEN activateChildComponent(w1, vm, TRUE) ELSE w1

\* The insert hook of a component vnode.
insert(w, vnode, ctxMounted) ==
    LET vm == vnode.inst
        w1 == IF ~w.insts[vm].mounted
                THEN callHook([w EXCEPT !.insts[vm].mounted = TRUE], vm, "mounted")
                ELSE w
    IN  IF vnode.keepAlive
          THEN IF ctxMounted THEN queueActivatedComponent(w1, vm)
               ELSE activateChildComponent(w1, vm, TRUE)
          ELSE w1

\* The destroy hook without the test of data.keepAlive: it always destroys.
destroy_NoKeepAlive(w, vnode) ==
    LET vm == vnode.inst
    IN  IF ~w.insts[vm].destroyed THEN Destroy(w, vm) ELSE w

\* The destroy hook of a component vnode.
destroy(w, vnode) ==
    LET vm == vnode.inst
    IN  IF ~w.insts[vm].destroyed
          THEN IF ~vnode.keepAlive THEN Destroy(w, vm)
               ELSE deactivateChildComponent(w, vm, TRUE)
          ELSE w

\* The deferred activations, run once the patches of the flush have
\* finished: _inactive is set again, then the instance is activated directly.
RECURSIVE callActivatedHooks(_)
callActivatedHooks(w) ==
    IF w.queue = <<>> THEN w
    ELSE LET vm == Head(w.queue)
         IN  callActivatedHooks(
               activateChildComponent(
                 [w EXCEPT !.queue = Tail(@), !.insts[vm].inactive = "true"],
                 vm, TRUE))

\* ------------------------------------------------------- the same-node test
\* The fields of a vnode that sameVnode reads.
Node(v) == [key |-> v.key,
            tag |-> IF v.kind = "comp" THEN VnodeTag(v.comp) ELSE "div",
            isComment |-> FALSE, hasData |-> TRUE, inputType |-> "",
            isAsyncPlaceholder |-> FALSE, asyncFactory |-> "", asyncError |-> FALSE]

sameInputType(a, b) == a.tag # "input" \/ a.inputType = b.inputType

\* sameVnode without the comparison of the keys.
sameVnode_IgnoresKey(a, b) ==
    \/ /\ a.tag = b.tag
       /\ a.isComment = b.isComment
       /\ a.hasData = b.hasData
       /\ sameInputType(a, b)
    \/ /\ a.isAsyncPlaceholder
       /\ a.asyncFactory = b.asyncFactory
       /\ ~b.asyncError

\* sameVnode asking both nodes to be placeholders.
sameVnode_BothPlaceholders(a, b) ==
    /\ a.key = b.key
    /\ \/ /\ a.tag = b.tag
          /\ a.isComment = b.isComment
          /\ a.hasData = b.hasData
          /\ sameInputType(a, b)
       \/ /\ a.isAsyncPlaceholder /\ b.isAsyncPlaceholder
          /\ a.asyncFactory = b.asyncFactory
          /\ ~b.asyncError

sameVnode(a, b) ==
    /\ a.key = b.key
    /\ \/ /\ a.tag = b.tag
          /\ a.isComment = b.isComment
          /\ a.hasData = b.hasData
          /\ sameInputType(a, b)
       \/ /\ a.isAsyncPlaceholder
          /\ a.asyncFactory = b.asyncFactory
          /\ ~b.asyncError

\* ------------------------------------------------------------ keep-alive
\* A value is truthy in `include && ...`, `exclude && ...`, `this.max && ...`.
PatternSet(pattern) == pattern.kind # "unset"

\* this.max is truthy: a number other than 0, or a non-empty string.
MaxSet(m) == (m.kind = "number" /\ m.n # 0) \/ m.kind = "string"

\* parseInt(this.max)
parseInt(m) == m.n

getComponentName(c) ==
    IF Ctor(c).name # NoName THEN Ctor(c).name ELSE Ctor(c).tag

\* pattern.test(name) for the expressions in use.
RegExpTest(re, name) ==
    CASE re = "page-" -> name \in {"page-a", "page-b"}
      [] OTHER -> FALSE

InSeq(x, sq) == \E i \in 1..Len(sq) : sq[i] = x

matches(pattern, name) ==
    IF pattern.kind = "array" THEN InSeq(name, pattern.list)
    ELSE IF pattern.kind = "string" THEN InSeq(name, pattern.list)
    ELSE IF pattern.kind = "regexp" THEN RegExpTest(pattern.re, name)
    ELSE FALSE

\* remove(arr, item) of shared/util: drops the first occurrence.
RECURSIVE remove(_, _)
remove(arr, item) ==
    IF arr = <<>> THEN <<>>
    ELSE IF Head(arr) = item THEN Tail(arr)
    ELSE <<Head(arr)>> \o remove(Tail(arr), item)

\* The state a keep-alive function works on: the cache, the keys, the world,
\* and whether a TypeError has ended the function.
KA(c, k, w) == [cache |-> c, keys |-> k, w |-> w, threw |-> FALSE]

\* pruneCacheEntry without its last statement: the key stays in the order.
pruneCacheEntry_KeepsKey(st, key, current) ==
    LET cached == st.cache[key]
        doDestroy == cached.kind # "null" /\
                     (current.kind = "null" \/ Node(cached).tag # Node(current).tag)
    IN  IF doDestroy /\ cached.inst = NoInst
          THEN [st EXCEPT !.threw = TRUE]
          ELSE [st EXCEPT !.w = IF doDestroy THEN Destroy(@, cached.inst) ELSE @,
                          !.cache[key] = NullVnode]

\* pruneCacheEntry without the tag guard: every pruned entry is destroyed.
pruneCacheEntry_NoTagGuard(st, key, current) ==
    LET cached == st.cache[key]
        doDestroy == cached.kind # "null"
    IN  IF doDestroy /\ cached.inst = NoInst
          THEN [st EXCEPT !.threw = TRUE]
          ELSE [st EXCEPT !.w = IF doDestroy THEN Destroy(@, cached.inst) ELSE @,
                          !.cache[key] = NullVnode,
                          !.keys = remove(@, key)]

\* pruneCacheEntry(cache, key, keys, current). cached.componentInstance
\* .$destroy() on an entry that has no instance raises a TypeError, and the
\* two statements after it do not run.
pruneCacheEntry(st, key, current) ==
    LET cached == st.cache[key]
        doDestroy == cached.kind # "null" /\
                     (current.kind = "null" \/ Node(cached).tag # Node(current).tag)
    IN  IF doDestroy /\ cached.inst = NoInst
          THEN [st EXCEPT !.threw = TRUE]
          ELSE [st EXCEPT !.w = IF doDestroy THEN Destroy(@, cached.inst) ELSE @,
                          !.cache[key] = NullVnode,
                          !.keys = remove(@, key)]

\* pruneCache(keepAliveInstance, filter), with filter(name) given as keep(name).
\* i is the position in the property order.
RECURSIVE pruneCacheFrom(_, _, _, _, _)
pruneCacheFrom(st, current, val, negate, i) ==
    IF i > Len(KeyOrder) \/ st.threw THEN st
    ELSE LET key == KeyOrder[i]
             cachedNode == st.cache[key]
             name == IF cachedNode.kind = "null" THEN NoName
                     ELSE getComponentName(cachedNode.comp)
             filter == IF negate THEN ~matches(val, name) ELSE matches(val, name)
         IN  IF cachedNode.kind # "null" /\ name # NoName /\ ~filter
               THEN pruneCacheFrom(pruneCacheEntry(st, key, current),
                                   current, val, negate, i + 1)
               ELSE pruneCacheFrom(st, current, val, negate, i + 1)

pruneCache(st, current, val, negate) == pruneCacheFrom(st, current, val, negate, 1)

\* destroyed(): every key of the cache is pruned, with no current node.
RECURSIVE destroyedFrom(_, _)
destroyedFrom(st, i) ==
    IF i > Len(KeyOrder) \/ st.threw THEN st
    ELSE destroyedFrom(pruneCacheEntry(st, KeyOrder[i], NullVnode), i + 1)

\* The filter check with the exclude half left out.
Rejected_IncludeOnly(inc, exc, name) ==
    PatternSet(inc) /\ (name = NoName \/ ~matches(inc, name))

\* The child is rejected by the filter (render, "check pattern").
Rejected(inc, exc, name) ==
    \/ PatternSet(inc) /\ (name = NoName \/ ~matches(inc, name))
    \/ PatternSet(exc) /\ name # NoName /\ matches(exc, name)

\* The miss branch sparing an oldest entry that is tag-identical to the
\* current node and pruning the next-oldest in its place.
renderMiss_SkipCurrent(st, mx, current, key, vnode) ==
    LET st1 == [st EXCEPT !.cache[key] = vnode, !.keys = Append(@, key)]
        oldest == st1.cache[st1.keys[1]]
        spare == /\ current.kind # "null"
                 /\ Node(oldest).tag = Node(current).tag
                 /\ Len(st1.keys) >= 2
    IN  IF MaxSet(mx) /\ Len(st1.keys) > parseInt(mx)
          THEN pruneCacheEntry(st1, st1.keys[IF spare THEN 2 ELSE 1], current)
          ELSE st1

\* The miss branch pruning only once the order is two longer than max.
renderMiss_OffByOne(st, mx, current, key, vnode) ==
    LET st1 == [st EXCEPT !.cache[key] = vnode, !.keys = Append(@, key)]
    IN  IF MaxSet(mx) /\ Len(st1.keys) > parseInt(mx) + 1
          THEN pruneCacheEntry(st1, st1.keys[1], current)
          ELSE st1

\* The miss branch of render: store, push, prune the oldest entry.
renderMiss(st, mx, current, key, vnode) ==
    LET st1 == [st EXCEPT !.cache[key] = vnode, !.keys = Append(@, key)]
    IN  IF MaxSet(mx) /\ Len(st1.keys) > parseInt(mx)
          THEN pruneCacheEntry(st1, st1.keys[1], current)
          ELSE st1

\* The hit branch pruning the oldest entry once the key is the freshest.
renderHit_EvictsOldest(st, key) ==
    LET st1 == [st EXCEPT !.keys = Append(remove(@, key), key)]
    IN  IF Len(st1.keys) > 1 THEN pruneCacheEntry(st1, st1.keys[1], NullVnode)
        ELSE st1

\* The hit branch leaving the order as it was.
renderHit_NoMove(st, key) == st

\* The hit branch of render: the key becomes the freshest.
renderHit(st, key) == [st EXCEPT !.keys = Append(remove(@, key), key)]

\* render(): st is the container's state and child what the slot offers; the
\* result holds the new state, the vnode returned and what the pass did.
render(st, inc, exc, mx, current, child) ==
    IF child.kind # "comp"
      THEN [st |-> st, vnode |-> child, res |-> "pass", key |-> NoKey]
    ELSE IF Rejected(inc, exc, getComponentName(child.comp))
      THEN [st |-> st, vnode |-> child, res |-> "rejected", key |-> NoKey]
    ELSE LET key == DerivedKey(child.comp, child.key)
         IN  IF st.cache[key].kind # "null"
               THEN [st |-> renderHit(st, key),
                     vnode |-> [child EXCEPT !.inst = st.cache[key].inst,
                                             !.keepAlive = TRUE],
                     res |-> "hit", key |-> key]
               ELSE [st |-> renderMiss(st, mx, current, key, child),
                     vnode |-> [child EXCEPT !.keepAlive = TRUE],
                     res |-> "miss", key |-> key]

\* ---------------------------------------------------------- the view slot
\* parent.$vnode.data of every instance: routerView (the instance was
\* rendered by a view slot) and keepAlive, read off the nodes that hold the
\* instance.
VnodeData(is, held, routed) ==
    [vm \in 1..Len(is) |->
        [routerView |-> routed,
         keepAlive |-> \E v \in held : v.kind = "comp" /\ v.inst = vm /\ v.keepAlive]]

\* The walk up the parent chain, to the router root: the depth of the slot
\* and whether the tree has been toggled inactive but kept alive.
\* The walk without the test of _directInactive: any inactive kept-alive
\* ancestor freezes the slot.
RECURSIVE RouterViewWalk_AnyInactive(_, _, _, _)
RouterViewWalk_AnyInactive(is, data, parent, acc) ==
    IF parent = NoInst THEN acc
    ELSE LET vnodeData == data[parent]
             depth == IF vnodeData.routerView THEN acc.depth + 1 ELSE acc.depth
             inactive == \/ acc.inactive
                         \/ /\ vnodeData.keepAlive
                            /\ is[parent].inactive = "true"
         IN  RouterViewWalk_AnyInactive(is, data, is[parent].parent,
                                        [depth |-> depth, inactive |-> inactive])

RECURSIVE RouterViewWalk(_, _, _, _)
RouterViewWalk(is, data, parent, acc) ==
    IF parent = NoInst THEN acc
    ELSE LET vnodeData == data[parent]
             depth == IF vnodeData.routerView THEN acc.depth + 1 ELSE acc.depth
             inactive == \/ acc.inactive
                         \/ /\ vnodeData.keepAlive
                            /\ is[parent].directInactive
                            /\ is[parent].inactive = "true"
         IN  RouterViewWalk(is, data, is[parent].parent,
                            [depth |-> depth, inactive |-> inactive])

\* h(component) with no key on the slot, h() for the empty node.
ViewVnode(component) ==
    IF component = NoComp THEN PlainVnode ELSE CompVnode(component, NoKey)

\* RouterView.render in the context `parent` with cache[name] = cached: the
\* node it returns and what it leaves in cache[name].
RouterViewRender_NeverFrozen(is, data, parent, rt, cached) ==
    LET walk == RouterViewWalk(is, data, parent, [depth |-> 0, inactive |-> FALSE])
        matched == Matched(rt)
        component == IF walk.depth + 1 <= Len(matched)
                       THEN matched[walk.depth + 1] ELSE NoComp
    IN  [inactive |-> walk.inactive, depth |-> walk.depth,
         cached |-> component, vnode |-> ViewVnode(component)]

\* RouterView.render clearing cache[name] on a frozen pass.
RouterViewRender_FrozenClears(is, data, parent, rt, cached) ==
    LET walk == RouterViewWalk(is, data, parent, [depth |-> 0, inactive |-> FALSE])
        matched == Matched(rt)
        component == IF walk.depth + 1 <= Len(matched)
                       THEN matched[walk.depth + 1] ELSE NoComp
    IN  IF walk.inactive
          THEN [inactive |-> TRUE, depth |-> walk.depth,
                cached |-> NoComp, vnode |-> ViewVnode(cached)]
          ELSE [inactive |-> FALSE, depth |-> walk.depth,
                cached |-> component, vnode |-> ViewVnode(component)]

RouterViewRender(is, data, parent, rt, cached) ==
    LET walk == RouterViewWalk(is, data, parent, [depth |-> 0, inactive |-> FALSE])
        matched == Matched(rt)
        component == IF walk.depth + 1 <= Len(matched)
                       THEN matched[walk.depth + 1] ELSE NoComp
    IN  IF walk.inactive
          THEN [inactive |-> TRUE, depth |-> walk.depth,
                cached |-> cached, vnode |-> ViewVnode(cached)]
          ELSE [inactive |-> FALSE, depth |-> walk.depth,
                cached |-> component, vnode |-> ViewVnode(component)]

\* ------------------------------------------------------- the patch cycle
\* The init hook: a kept-alive node that carries a live instance keeps it,
\* any other component node gets a new instance, a child of the instance
\* being patched; its created callback fires and its template is rendered,
\* which creates what its view slot resolves. inserted is the queue of the
\* nested nodes whose insert hooks are still to run.
RECURSIVE createComponent(_, _)
createComponent(w, vnode) ==
    IF vnode.inst # NoInst /\ ~w.insts[vnode.inst].destroyed /\ vnode.keepAlive
      THEN [w |-> w, vnode |-> vnode, inserted |-> <<>>]
      ELSE LET vm == Len(w.insts) + 1
               w1 == [w EXCEPT !.insts = Append(@,
                         [NewInstance(vnode.comp) EXCEPT !.parent = w.activeInstance])]
               w2 == callHook(w1, vm, "created")
               v == [vnode EXCEPT !.inst = vm]
           IN  IF w.route # NoRoute /\ HasViewSlot(vnode.comp)
                 THEN LET r == RouterViewRender(w2.insts, VnodeData(w2.insts, {v}, TRUE),
                                                vm, w.route, NoComp)
                          c == IF r.vnode.kind = "comp"
                                 THEN createComponent([w2 EXCEPT !.activeInstance = vm],
                                                      r.vnode)
                                 ELSE [w |-> w2, vnode |-> r.vnode, inserted |-> <<>>]
                      IN  [w |-> [c.w EXCEPT !.activeInstance = w.activeInstance,
                                            !.views = SetView(@, vm,
                                               [cached |-> r.cached, shown |-> c.vnode])],
                           vnode |-> v,
                           inserted |-> c.inserted \o
                              (IF c.vnode.kind = "comp" THEN <<c.vnode>> ELSE <<>>)]
                 ELSE [w |-> w2, vnode |-> v, inserted |-> <<>>]

\* The insert hooks of the nested nodes, children before parents.
RECURSIVE invokeInsertHook(_, _)
invokeInsertHook(w, queue) ==
    IF queue = <<>> THEN w
    ELSE LET context == w.insts[Head(queue).inst].parent
         IN  invokeInsertHook(
               insert(w, Head(queue),
                      context # NoInst /\ w.insts[context].mounted),
               Tail(queue))

\* patch(oldVnode, vnode): the same node is patched in place and keeps the
\* old instance; otherwise the new node is created, the old one removed
\* (destroy hook) and the new one inserted (insert hooks, the nested nodes
\* first).
patch(w, old, new, ctxMounted) ==
    IF old.kind # "null" /\ sameVnode(Node(old), Node(new))
      THEN [w |-> w,
            vnode |-> IF new.kind = "comp" THEN [new EXCEPT !.inst = old.inst]
                      ELSE new]
      ELSE Let(IF new.kind = "comp" THEN createComponent(w, new)
               ELSE [w |-> w, vnode |-> new, inserted |-> <<>>],
               LAMBDA c :
                 Let(IF old.kind = "comp" THEN destroy(c.w, old) ELSE c.w,
                     LAMBDA w1 :
                       Let(invokeInsertHook(w1, c.inserted),
                           LAMBDA w2 :
                             [w |-> IF new.kind = "comp"
                                      THEN insert(w2, c.vnode, ctxMounted)
                                      ELSE w2,
                              vnode |-> c.vnode])))

\* The container renders and its node is patched. A render that raised
\* leaves the displayed node as it was (the empty placeholder on the first
\* pass). On a miss the cache holds the very vnode that render returned, so
\* the entry shows the instance the patch resolved for it.
renderAndPatch(st, inc, exc, mx, current, child, ctxMounted) ==
    Let(render(st, inc, exc, mx, current, child),
        LAMBDA r :
          IF r.st.threw
            THEN [st |-> r.st, res |-> "threw", key |-> r.key,
                  vnode |-> IF current.kind = "null" THEN PlainVnode ELSE current]
            ELSE Let(patch(r.st.w, current, r.vnode, ctxMounted),
                     LAMBDA p :
                       [st |-> [r.st EXCEPT
                                  !.cache = IF r.res = "miss" /\ @[r.key].kind # "null"
                                              THEN [@ EXCEPT ![r.key] = p.vnode]
                                              ELSE @,
                                  !.w = p.w],
                        res |-> r.res, key |-> r.key, vnode |-> p.vnode]))

\* One render-and-patch cycle of the container: the deferred activations
\* run last.
cycle(st, inc, exc, mx, current, child, ctxMounted) ==
    Let(renderAndPatch(st, inc, exc, mx, current, child, ctxMounted),
        LAMBDA c : [c EXCEPT !.st.w = callActivatedHooks(@)])

\* The instance vm renders its template again and the node of its view slot
\* is patched, with vm as the active instance.
renderView(w, data, vm) ==
    LET e == ViewOf(w.views, vm)
        r == RouterViewRender(w.insts, data, vm, w.route, e.cached)
    IN  Let(patch([w EXCEPT !.activeInstance = vm], e.shown, r.vnode,
                  w.insts[vm].mounted),
            LAMBDA p :
              [p.w EXCEPT !.activeInstance = w.activeInstance,
                          !.views = SetView(@, vm,
                                      [cached |-> r.cached, shown |-> p.vnode])])

RECURSIVE renderViews(_, _, _)
renderViews(w, data, vms) ==
    IF vms = <<>> THEN w
    ELSE Let(renderView(w, data, Head(vms)),
             LAMBDA w1 : renderViews(w1, data, Tail(vms)))

\* The instances that hold a view slot and are not destroyed, parents first
\* (the order in which the scheduler runs their render watchers).
ViewContexts(vs, is) ==
    SelectSeq([i \in 1..Len(is) |-> i],
              LAMBDA i : i \in DOMAIN vs /\ ~is[i].destroyed)

CacheNodes(ch) == {ch[k] : k \in DOMAIN ch}

\* One flush of the scheduler in the routed application, with $route = rt:
\* the root renders (its view slot resolves the child of the container, the
\* container renders and is patched), then the instances in vms render
\* their view slots, then the deferred activations run.
flushViews(st, rt, current, ctxMounted, vms) ==
    LET is == st.w.insts
        r == RouterViewRender(is, VnodeData(is, {current} \cup CacheNodes(st.cache), TRUE),
                              NoInst, rt, ViewOf(st.w.views, NoInst).cached)
        w0 == [st.w EXCEPT !.route = rt,
                           !.views = SetView(@, NoInst,
                                        [cached |-> r.cached, shown |-> r.vnode])]
    IN  Let(renderAndPatch([st EXCEPT !.w = w0], NoPattern, NoPattern, NoMax,
                           current, r.vnode, ctxMounted),
            LAMBDA c :
              Let(renderViews(c.st.w,
                              VnodeData(c.st.w.insts,
                                        {c.vnode} \cup CacheNodes(c.st.cache), TRUE),
                              SelectSeq(vms, LAMBDA i : ~c.st.w.insts[i].destroyed)),
                  LAMBDA w1 :
                    [st |-> [c.st EXCEPT !.w = callActivatedHooks(w1)],
                     res |-> c.res, key |-> c.key, vnode |-> c.vnode,
                     child |-> r.vnode]))

\* ------------------------------------------------------------------ steps
\* op is the operation and res what its render did (pass, rejected, hit,
\* miss, threw).
Op(op, res) == [op |-> op, res |-> res]

TypeOK ==
    /\ include \in IncludeValues /\ exclude \in ExcludeValues /\ max \in MaxValues
    /\ DOMAIN cache = AllKeys
    /\ \A i \in 1..Len(keys) : keys[i] \in AllKeys
    /\ alive \in BOOLEAN /\ threw \in BOOLEAN /\ contextMounted \in BOOLEAN

\* created(): an empty cache and no keys; nothing rendered yet.
Init ==
    /\ include \in IncludeValues
    /\ exclude \in ExcludeValues
    /\ max \in MaxValues
    /\ cache = [k \in AllKeys |-> NullVnode]
    /\ keys = <<>>
    /\ _vnode = NullVnode
    /\ slot = NullVnode
    /\ insts = <<>>
    /\ contextMounted = FALSE
    /\ alive = TRUE
    /\ fired = <<>>
    /\ threw = FALSE
    /\ last = Op("created", "")
    /\ route = NoRoute
    /\ views = NoViews

Commit(c, o, bound) ==
    /\ Len(c.st.w.insts) <= bound
    /\ cache' = c.st.cache
    /\ keys' = c.st.keys
    /\ insts' = c.st.w.insts
    /\ fired' = c.st.w.fired
    /\ threw' = c.st.threw
    /\ _vnode' = c.vnode
    /\ contextMounted' = TRUE
    /\ last' = o
    /\ views' = c.st.w.views

\* A render pass of the container with `child` in its slot. A step that
\* raised ends the behaviour: what the host does with the container after a
\* failed render is not in the source.
RenderPass(child, bound) ==
    /\ alive /\ ~threw
    /\ \E c \in {cycle(KA(cache, keys, World(insts)), include, exclude, max,
                      _vnode, child, contextMounted)} :
          Commit(c, Op("render", c.res), bound)
    /\ slot' = child
    /\ UNCHANGED <<include, exclude, max, alive, route>>

\* include or exclude changes on the mounted container: it renders again
\* with the child it has, and then the watcher prunes the cache.
FilterChange(inc, exc, val, negate, op) ==
    /\ alive /\ ~threw
    /\ _vnode.kind # "null"
    /\ \E c \in {cycle(KA(cache, keys, World(insts)), inc, exc, max,
                      _vnode, slot, contextMounted)} :
         \E st \in {pruneCache([c.st EXCEPT !.threw = FALSE], c.vnode, val, negate)} :
            Commit([c EXCEPT !.st = [st EXCEPT !.threw = st.threw \/ c.st.threw]],
                   Op(op, c.res), MaxInst)
    /\ include' = inc
    /\ exclude' = exc
    /\ UNCHANGED <<max, slot, alive, route>>

SetInclude(val) ==
    /\ val # include
    /\ FilterChange(val, exclude, val, FALSE, "include")

SetExclude(val) ==
    /\ val # exclude
    /\ FilterChange(include, val, val, TRUE, "exclude")

\* The container is destroyed: its displayed node is removed, then
\* destroyed() prunes every entry. The host may destroy the container at any
\* time, also after a render that raised.
Teardown ==
    /\ alive
    /\ LET w1 == IF _vnode.kind = "comp" THEN destroy(World(insts), _vnode)
                 ELSE World(insts)
           st == destroyedFrom(KA(cache, keys, w1), 1)
       IN  /\ cache' = st.cache
           /\ keys' = st.keys
           /\ insts' = st.w.insts
           /\ fired' = st.w.fired
           /\ threw' = st.threw
    /\ alive' = FALSE
    /\ _vnode' = NullVnode
    /\ last' = Op("destroyed", "")
    /\ UNCHANGED <<include, exclude, max, slot, contextMounted, route, views>>

Next ==
    \/ \E child \in FilteredChildren : RenderPass(child, MaxInst)
    \/ \E val \in IncludeValues : SetInclude(val)
    \/ \E val \in ExcludeValues : SetExclude(val)
    \/ Teardown

Spec == Init /\ [][Next]_vars

\* The container with fixed props and no filter: every child, one more
\* instance.
InitMax == Init /\ include = NoPattern /\ exclude = NoPattern

NextMax ==
    \/ \E child \in Children : RenderPass(child, MaxCapInst)
    \/ Teardown

SpecMax == InitMax /\ [][NextMax]_vars

\* ------------------------------------------------- trees of instances
\* Trees of mounted instances, given by the parent of each instance in
\* creation order ($parent; 0 is none): a parent with two children and a
\* grandchild, a chain, a parent with three children, and two trees.
TreeShapes == {<<0, 1, 1, 2>>, <<0, 1, 2, 3>>, <<0, 1, 1, 1>>, <<0, 1, 1, 0>>}

TreeComps == <<"Home", "A", "B", "Anon">>

Tree(shape) ==
    [i \in 1..Len(shape) |->
        [NewInstance(TreeComps[i]) EXCEPT !.parent = shape[i], !.mounted = TRUE]]

\* The trees are mounted and nothing has activated or deactivated them yet.
InitTree ==
    /\ include = NoPattern /\ exclude = NoPattern /\ max = NoMax
    /\ cache = [k \in AllKeys |-> NullVnode]
    /\ keys = <<>>
    /\ _vnode = NullVnode
    /\ slot = NullVnode
    /\ insts \in {Tree(shape) : shape \in TreeShapes}
    /\ contextMounted = TRUE
    /\ alive = TRUE
    /\ fired = <<>>
    /\ threw = FALSE
    /\ last = Op("created", "")
    /\ route = NoRoute
    /\ views = NoViews

TreeStep(w, op, vm) ==
    /\ insts' = w.insts
    /\ fired' = w.fired
    /\ last' = Op(op, ToString(vm))
    /\ UNCHANGED <<include, exclude, max, cache, keys, _vnode, slot,
                   contextMounted, alive, threw, route, views>>

\* The insert hook of a kept-alive node whose instance is vm activates it
\* directly.
ActivateDirect(vm) ==
    TreeStep(activateChildComponent(World(insts), vm, TRUE), "activate", vm)

\* The destroy hook of a kept-alive node whose instance is vm deactivates it
\* directly.
DeactivateDirect(vm) ==
    TreeStep(deactivateChildComponent(World(insts), vm, TRUE), "deactivate", vm)

NextTree ==
    \/ \E vm \in 1..Len(insts) : ActivateDirect(vm)
    \/ \E vm \in 1..Len(insts) : DeactivateDirect(vm)

SpecTree == InitTree /\ [][NextTree]_vars

\* ------------------------------------------------- the routed application
\* App.vue: <keep-alive><router-view/></keep-alive>, opened on any route.
InitView ==
    /\ include = NoPattern /\ exclude = NoPattern /\ max = NoMax
    /\ cache = [k \in AllKeys |-> NullVnode]
    /\ keys = <<>>
    /\ _vnode = NullVnode
    /\ slot = NullVnode
    /\ insts = <<>>
    /\ contextMounted = FALSE
    /\ alive = TRUE
    /\ fired = <<>>
    /\ threw = FALSE
    /\ last = Op("created", "")
    /\ route \in Routes
    /\ views = NoViews

\* The root renders: on the first pass the application is mounted.
RenderApp ==
    \E c \in {flushViews(KA(cache, keys, World(insts)), route, _vnode,
                          contextMounted, <<>>)} :
        /\ Commit(c, Op("render", c.res), MaxViewInst)
        /\ slot' = c.child
        /\ UNCHANGED <<include, exclude, max, alive, route>>

\* The route changes in the mounted application: the root and every instance
\* that holds a view slot render again.
Navigate(rt) ==
    /\ contextMounted
    /\ rt # route
    /\ \E c \in {flushViews(KA(cache, keys, World(insts)), rt, _vnode,
                             contextMounted, ViewContexts(views, insts))} :
          /\ Commit(c, Op("navigate", c.res), MaxViewInst)
          /\ slot' = c.child
    /\ route' = rt
    /\ UNCHANGED <<include, exclude, max, alive>>

\* An instance that holds a view slot renders again on its own.
RenderHome(vm) ==
    /\ contextMounted
    /\ vm \in DOMAIN views /\ vm # NoInst /\ ~insts[vm].destroyed
    /\ LET w == callActivatedHooks(
                  renderView(World(insts),
                             VnodeData(insts, {_vnode} \cup CacheNodes(cache), TRUE), vm))
       IN  /\ Len(w.insts) <= MaxViewInst
           /\ insts' = w.insts
           /\ fired' = w.fired
           /\ views' = w.views
    /\ last' = Op("rerender", ToString(vm))
    /\ UNCHANGED <<include, exclude, max, cache, keys, _vnode, slot,
                   contextMounted, alive, threw, route>>

NextView ==
    \/ RenderApp
    \/ \E rt \in Routes : Navigate(rt)
    \/ \E vm \in 1..MaxViewInst : RenderHome(vm)

SpecView == InitView /\ [][NextView]_vars

\* ------------------------------------------------- pairs of nodes
\* The nodes sameVnode is given, by the fields it reads: a key or none, no
\* tag (comments and placeholders), an input or a component tag, with or
\* without data, an input type, and the factory of an asynchronous
\* component with the error recorded on it.
NoTag == ""
NodeKeys == {NoKey, "1"}
NodeTags == {NoTag, "input", "vue-component-2"}
InputTypes == {"text", "checkbox"}
Factories == {"f", "g"}

Nodes ==
    [key : NodeKeys, tag : NodeTags, isComment : BOOLEAN, hasData : BOOLEAN,
     inputType : InputTypes, isAsyncPlaceholder : BOOLEAN,
     asyncFactory : Factories, asyncError : BOOLEAN]

\* patch is about to compare the old node (_vnode) with the new one (slot);
\* the error is recorded on the factory, so two nodes of one factory agree
\* on it.
InitNode ==
    /\ include = NoPattern /\ exclude = NoPattern /\ max = NoMax
    /\ cache = [k \in AllKeys |-> NullVnode]
    /\ keys = <<>>
    /\ _vnode \in Nodes
    /\ slot \in Nodes
    /\ _vnode.asyncFactory = slot.asyncFactory => _vnode.asyncError = slot.asyncError
    /\ insts = <<>>
    /\ contextMounted = TRUE
    /\ alive = TRUE
    /\ fired = <<>>
    /\ threw = FALSE
    /\ last = Op("created", "")
    /\ route = NoRoute
    /\ views = NoViews

\* patch asks whether the two nodes are the same node.
CompareNodes ==
    /\ last.op = "created"
    /\ last' = Op("sameVnode", IF sameVnode(_vnode, slot) THEN "true" ELSE "false")
    /\ UNCHANGED <<include, exclude, max, cache, keys, _vnode, slot, insts,
                   contextMounted, alive, fired, threw, route, views>>

NextNode == CompareNodes

SpecNode == InitNode /\ [][NextNode]_vars

\* ================================================================ claims
Cached == {k \in AllKeys : cache[k].kind # "null"}

One == [kind |-> "number", n |-> 1]
Two == [kind |-> "number", n |-> 2]

\* The step is a render pass with `child` in the slot: only RenderPass
\* records a render in `last`, and it records its child in `slot`.
RenderPassed(child) == last'.op = "render" /\ slot' = child

\* C1: after each render pass, if max is configured the number of cached
\* entries is at most max.
C1_BoundedSize ==
    (last.op = "render" /\ MaxSet(max)) => Cardinality(Cached) <= parseInt(max)

\* C4: no instance is destroyed while a cache entry holds it: every instance
\* referenced by a cache entry is not destroyed, and removing a cache-managed
\* node from the tree deactivates its instance instead of destroying it.
C4_CachedNotDestroyed ==
    [][/\ \A k \in Cached' :
            cache'[k].inst # NoInst => ~insts'[cache'[k].inst].destroyed
       /\ \A child \in FilteredChildren :
            ( /\ RenderPassed(child)
              /\ _vnode.kind = "comp" /\ _vnode.keepAlive
              /\ ~insts[_vnode.inst].destroyed
              /\ _vnode'.inst # _vnode.inst ) =>
                 /\ ~insts'[_vnode.inst].destroyed
                 /\ insts'[_vnode.inst].inactive = "true"]_vars

\* C5: a key is in keys if and only if cache holds a non-null entry for it.
C5_KeysIffCached ==
    \A k \in AllKeys : InSeq(k, keys) <=> cache[k].kind # "null"

Destroyed == {i \in 1..Len(insts) : insts[i].destroyed}

\* A filter change has pruned and destroyed one of two cached entries.
C5_Witness ==
    /\ last.op \in {"include", "exclude"}
    /\ Len(insts) = 2 /\ Destroyed # {}
    /\ Len(keys) = 1

Shown(c, k, vm) == [kind |-> "comp", comp |-> c, key |-> k, inst |-> vm,
                    keepAlive |-> TRUE]

\* C2: with max=1, rendering home (miss) and then pageA (miss) leaves the
\* entries {pageA}, and exactly one destroy callback has fired, for home.
C2_AfterHome ==
    /\ max = One
    /\ keys = <<"1">>
    /\ Len(insts) = 1 /\ insts[1].comp = "Home"
    /\ _vnode = Shown("Home", NoKey, 1)

C2_Step == C2_AfterHome /\ RenderPassed(CompVnode("A", NoKey))

C3_Key(child) == DerivedKey(child.comp, child.key)

C3_Evicts(child) ==
    /\ child.kind = "comp"
    /\ cache[C3_Key(child)].kind = "null"
    /\ MaxSet(max) /\ Len(keys) + 1 > parseInt(max)

C3_Oldest(child) == Append(keys, C3_Key(child))[1]

C3_OldestIsCurrent(child) ==
    /\ _vnode.kind = "comp"
    /\ VnodeTag(_vnode.comp) =
         VnodeTag(IF C3_Oldest(child) = C3_Key(child) THEN child.comp
                  ELSE cache[C3_Oldest(child)].comp)

C3_OldestInst(child) ==
    IF C3_Oldest(child) = C3_Key(child) THEN NoInst
    ELSE cache[C3_Oldest(child)].inst

\* C3: capacity eviction removes the oldest key, unless that entry is
\* tag-identical to the current node: then the next-oldest entry is evicted
\* and the tag-identical entry stays cached.
C3_NextOldestEvicted ==
    [][\A child \in Children :
        (RenderPassed(child) /\ C3_Evicts(child) /\ ~threw') =>
            IF C3_OldestIsCurrent(child)
              THEN /\ C3_Oldest(child) \in Cached'
                   /\ Len(keys) >= 1 => Append(keys, C3_Key(child))[2] \notin Cached'
              ELSE C3_Oldest(child) \notin Cached']_vars

\* C3 as amended: capacity eviction is applied to the oldest key only. It
\* removes that key from the mapping and the order and no other key; the
\* entry's instance is destroyed unless the entry is tag-identical to the
\* node on display (this._vnode). When destruction is due and the entry has
\* no instance, a TypeError is raised and nothing is removed.
C3_OldestAlwaysEvicted ==
    [][\A child \in Children :
        (RenderPassed(child) /\ C3_Evicts(child)) =>
            /\ threw' <=> (C3_OldestInst(child) = NoInst /\ ~C3_OldestIsCurrent(child))
            /\ IF threw'
                 THEN /\ keys' = Append(keys, C3_Key(child))
                      /\ Cached' = Cached \cup {C3_Key(child)}
                      /\ insts' = insts
                 ELSE /\ keys' = Tail(Append(keys, C3_Key(child)))
                      /\ Cached' = (Cached \cup {C3_Key(child)}) \ {C3_Oldest(child)}
                      /\ C3_OldestInst(child) # NoInst =>
                           (insts'[C3_OldestInst(child)].destroyed
                              <=> ~C3_OldestIsCurrent(child))]_vars

\* An instance that the last pass evicted from the cache without destroying
\* it: it was on display, and the patch has deactivated it.
C3_Witness ==
    /\ last = Op("render", "miss") /\ MaxSet(max)
    /\ \E i \in 1..Len(insts) :
          /\ InSeq(<<"deactivated", i>>, fired)
          /\ ~insts[i].destroyed
          /\ \A k \in Cached : cache[k].inst # i

SlotKey == DerivedKey(slot.comp, slot.key)

\* C6: after each render pass that caches its child, the key just hit or
\* inserted is the last element of the recency order.
C6_FreshestLast ==
    (last.op = "render" /\ last.res \in {"hit", "miss", "threw"}) =>
        (keys # <<>> /\ keys[Len(keys)] = SlotKey)

\* C6 as amended: after each render pass that hits or inserts a key, that
\* key is the last element of the recency order, except that a miss under a
\* max that parses to 0 evicts the key it has just inserted, which is then
\* not in the order.
C6_FreshestLastOrEvicted ==
    (last.op = "render" /\ last.res \in {"hit", "miss", "threw"}) =>
        \/ keys # <<>> /\ keys[Len(keys)] = SlotKey
        \/ /\ last.res = "miss" /\ MaxSet(max) /\ parseInt(max) = 0
           /\ ~InSeq(SlotKey, keys)

C6_Witness ==
    /\ last = Op("render", "hit")
    /\ Len(keys) >= 2
    /\ keys[Len(keys)] = SlotKey

\* C7: with max=2, rendering home, pageA, pageB destroys home's instance
\* during the render that enters pageB, and pageA stays cached.
C7_AfterHomePageA ==
    /\ max = Two
    /\ keys = <<"1", "2">>
    /\ Len(insts) = 2 /\ insts[1].comp = "Home" /\ insts[2].comp = "A"
    /\ ~insts[1].destroyed
    /\ _vnode = Shown("A", NoKey, 2)

C7_HomeDestroyedOnPageB ==
    [][(C7_AfterHomePageA /\ RenderPassed(CompVnode("B", NoKey))) =>
        /\ insts'[1].destroyed /\ Head(fired') = <<"destroyed", 1>>
        /\ keys' = <<"2", "3">>
        /\ cache'["2"] = Shown("A", NoKey, 2) /\ ~insts'[2].destroyed]_vars

C7_Witness ==
    /\ max = Two
    /\ slot = CompVnode("B", NoKey)
    /\ keys = <<"2", "3">>
    /\ Len(insts) = 3 /\ insts[1].comp = "Home" /\ insts[1].destroyed
    /\ InSeq(<<"destroyed", 1>>, fired)

\* The keep-alive state after the re-render that a filter change triggers,
\* before the filter's watcher prunes the cache.
C8_Rerendered(inc, exc) ==
    cycle(KA(cache, keys, World(insts)), inc, exc, max, _vnode, slot,
          contextMounted).st

C8_Satisfies(val, negate, name) ==
    \/ ~PatternSet(val)
    \/ IF negate THEN ~matches(val, name) ELSE matches(val, name)

C8_ExactlyPruned(st, val, negate) ==
    \A k \in AllKeys :
        st.cache[k].kind # "null" =>
            IF C8_Satisfies(val, negate, getComponentName(st.cache[k].comp))
              THEN cache'[k] = st.cache[k]
              ELSE /\ cache'[k].kind = "null"
                   /\ st.cache[k].inst # NoInst =>
                        insts'[st.cache[k].inst].destroyed

\* C8: when include or exclude changes, exactly the cached entries whose
\* names no longer satisfy the new filter are removed and destroyed; the
\* others remain.
C8_FilterChangePrunesExactly ==
    [][/\ \A val \in IncludeValues :
            SetInclude(val) =>
                C8_ExactlyPruned(C8_Rerendered(val, exclude), val, FALSE)
       /\ \A val \in ExcludeValues :
            SetExclude(val) =>
                C8_ExactlyPruned(C8_Rerendered(include, val), val, TRUE)]_vars

C9_Rejects(child) ==
    /\ child.kind = "comp"
    /\ \/ /\ PatternSet(include)
          /\ \/ getComponentName(child.comp) = NoName
             \/ ~matches(include, getComponentName(child.comp))
       \/ /\ PatternSet(exclude)
          /\ matches(exclude, getComponentName(child.comp))

\* C9: a render pass whose child is rejected by the filters (include
\* configured and the name absent or not matching, or exclude configured and
\* the name matching) returns the child vnode without reading or changing
\* the cache and without marking the vnode as kept alive.
C9_RejectedPassesThrough ==
    [][\A child \in FilteredChildren :
        (RenderPassed(child) /\ C9_Rejects(child)) =>
            /\ cache' = cache /\ keys' = keys
            /\ last' = Op("render", "rejected")
            /\ _vnode'.kind = "comp"
            /\ _vnode'.comp = child.comp /\ _vnode'.key = child.key
            /\ ~_vnode'.keepAlive]_vars

C9_Witness ==
    /\ last = Op("render", "rejected")
    /\ PatternSet(exclude) /\ ~PatternSet(include)
    /\ slot.comp = "A"
    /\ Cached # {}
    /\ _vnode.comp = "A" /\ ~_vnode.keepAlive

C10_Hits(child) ==
    /\ child.kind = "comp"
    /\ ~C9_Rejects(child)
    /\ cache[C3_Key(child)].kind # "null"

\* C10: a render pass that hits the cache reuses the cached instance: no new
\* instance is created, so created and mounted do not fire again; two
\* renders carrying distinct explicit keys produce two distinct instances.
C10_HitReusesInstance ==
    [][\A child \in FilteredChildren :
        /\ (RenderPassed(child) /\ C10_Hits(child)) =>
              /\ Len(insts') = Len(insts)
              /\ _vnode'.inst = cache[C3_Key(child)].inst
              /\ \A i \in 1..Len(fired') :
                    fired'[i][1] \notin {"created", "mounted"}
        /\ ( /\ RenderPassed(child)
             /\ _vnode.kind = "comp" /\ _vnode.key # NoKey
             /\ child.kind = "comp" /\ child.key # NoKey
             /\ child.key # _vnode.key ) =>
              _vnode'.inst # _vnode.inst]_vars

\* The activated and deactivated callbacks of instance vm among those in f.
ActivationHistory(f, vm) ==
    SelectSeq(f, LAMBDA e : e[2] = vm /\ e[1] \in {"activated", "deactivated"})

\* C11: the callback history of an instance never contains two consecutive
\* activated or two consecutive deactivated callbacks, and a callback fires
\* only when it changes the instance's active state. _inactive records the
\* last callback (false: activated, true: deactivated, null: none yet), so
\* the callbacks of every step alternate, start with the one _inactive
\* allows and end with the one _inactive' records; without a callback
\* _inactive does not change.
C11_CallbacksAlternate ==
    [][\A vm \in 1..Len(insts) :
        LET h == ActivationHistory(fired', vm)
        IN  /\ \A j \in 1..(Len(h) - 1) : h[j][1] # h[j + 1][1]
            /\ h # <<>> =>
                 /\ h[1][1] = "activated" => insts[vm].inactive # "false"
                 /\ h[1][1] = "deactivated" => insts[vm].inactive # "true"
                 /\ insts'[vm].inactive =
                      (IF h[Len(h)][1] = "activated" THEN "false" ELSE "true")
            /\ h = <<>> => insts'[vm].inactive = insts[vm].inactive]_vars

\* An instance is activated again, with its parent, after a deactivation.
C11_Witness ==
    /\ last.op = "activate"
    /\ \E vm \in 1..Len(insts) :
          /\ insts[vm].parent # NoInst
          /\ ~insts[vm].directInactive
          /\ insts[vm].inactive = "false"
          /\ InSeq(<<"activated", vm>>, fired)
          /\ InSeq(<<"activated", insts[vm].parent>>, fired)

\* C12: for a cache-managed instance the first activation-lifecycle callback
\* after its creation and mount is an activated, never a deactivated, and it
\* fires after the instance's mounted callback.
C12_ActivatedFirst ==
    [][\A vm \in 1..Len(insts') :
        LET h == ActivationHistory(fired', vm)
            first == vm > Len(insts) \/ insts[vm].inactive = "null"
        IN  (h # <<>> /\ first) =>
              /\ h[1][1] = "activated"
              /\ \/ vm <= Len(insts) /\ insts[vm].mounted
                 \/ \E i, j \in 1..Len(fired') :
                       /\ i < j
                       /\ fired'[i] = <<"mounted", vm>>
                       /\ fired'[j] = <<"activated", vm>>]_vars

\* The position of callback e among those in f (0 when it did not fire).
FiredAt(f, e) ==
    IF InSeq(e, f) THEN CHOOSE i \in 1..Len(f) : f[i] = e ELSE 0

\* A parent (instance 1) with the children 2 and 3, all of them active.
C13_ActiveFamily ==
    /\ \A vm \in {2, 3} : insts[vm].parent = 1
    /\ \A vm \in 1..Len(insts) : insts[vm].parent \in {0, 1}
    /\ \A vm \in {1, 2, 3} :
          insts[vm].inactive = "false" /\ ~insts[vm].directInactive

\* The same family with nothing activated yet.
C13_FreshFamily ==
    /\ \A vm \in {2, 3} : insts[vm].parent = 1
    /\ \A vm \in 1..Len(insts) : insts[vm].parent \in {0, 1}
    /\ \A vm \in {1, 2, 3} :
          insts[vm].inactive = "null" /\ ~insts[vm].directInactive

\* C13: activation and deactivation propagate depth-first with the children
\* strictly before the parent: whenever one step fires the same callback for
\* a child and for its parent the child's comes first; activating a parent
\* with the children A and B fires A, B, parent, and deactivating it fires
\* A, B, parent.
C13_ChildrenBeforeParent ==
    [][/\ \A vm \in 1..Len(insts) : \A hook \in {"activated", "deactivated"} :
            ( /\ insts[vm].parent # NoInst
              /\ InSeq(<<hook, vm>>, fired')
              /\ InSeq(<<hook, insts[vm].parent>>, fired') ) =>
                 FiredAt(fired', <<hook, vm>>)
                    < FiredAt(fired', <<hook, insts[vm].parent>>)
       /\ (C13_FreshFamily /\ Len(insts) = 4 /\ insts[4].parent = 0
             /\ last' = Op("activate", "1")) =>
              fired' = <<<<"activated", 2>>, <<"activated", 3>>, <<"activated", 1>>>>
       /\ (C13_ActiveFamily /\ Len(insts) = 4 /\ insts[4].parent = 0
             /\ last' = Op("deactivate", "1")) =>
              fired' = <<<<"deactivated", 2>>, <<"deactivated", 3>>,
                         <<"deactivated", 1>>>>]_vars

C13_Witness ==
    /\ last = Op("deactivate", "1")
    /\ Len(insts) = 4 /\ insts[4].parent = 0
    /\ fired = <<<<"deactivated", 2>>, <<"deactivated", 3>>, <<"deactivated", 1>>>>
    /\ \A vm \in {1, 2, 3} : insts[vm].inactive = "true"

\* a is a proper ancestor of vm.
RECURSIVE IsAncestor(_, _, _)
IsAncestor(is, a, vm) ==
    LET p == is[vm].parent
    IN  p # NoInst /\ (p = a \/ IsAncestor(is, a, p))

\* C14: if instance X is deactivated directly and an ancestor of X is
\* deactivated afterwards, X's deactivated callback fires exactly once: the
\* ancestor's propagation fires the ancestor's callback and not X's again.
C14_DirectThenAncestor ==
    [][\A x, a \in 1..Len(insts) :
        ( /\ IsAncestor(insts, a, x)
          /\ insts[x].directInactive /\ insts[x].inactive = "true"
          /\ insts[a].inactive = "false"
          /\ ~isInInactiveTree(insts, a)
          /\ last' = Op("deactivate", ToString(a)) ) =>
             /\ InSeq(<<"deactivated", a>>, fired')
             /\ ~InSeq(<<"deactivated", x>>, fired')
             /\ insts'[x].inactive = "true"]_vars

\* The parent was deactivated after its child had been deactivated directly.
C14_Witness ==
    /\ last.op = "deactivate"
    /\ \E x \in 1..Len(insts) :
          LET a == insts[x].parent
          IN  /\ a # NoInst
              /\ last.res = ToString(a)
              /\ insts[x].directInactive /\ insts[x].inactive = "true"
              /\ insts[a].directInactive /\ insts[a].inactive = "true"
              /\ InSeq(<<"deactivated", a>>, fired)
              /\ ~InSeq(<<"deactivated", x>>, fired)

\* The insert hook run on a freshly created kept-alive Home node, in a
\* context that is mounted or not.
C15_Inserted(ctxMounted) ==
    LET c == createComponent(World(insts),
                             [CompVnode("Home", NoKey) EXCEPT !.keepAlive = TRUE])
    IN  insert(c.w, c.vnode, ctxMounted)

C15_New == Len(insts) + 1

\* C15: when the container swaps its child inside an already-mounted tree,
\* the activation of the incoming instance is deferred until the patch
\* operations of the cycle have finished, so the outgoing instance's
\* deactivated callback fires before the incoming instance's activated
\* callback, which is the last of the cycle; on the first mount the
\* activation runs immediately, in the insert hook.
C15_ActivationDeferred ==
    [][/\ ( /\ last'.op = "render"
            /\ contextMounted
            /\ _vnode.kind = "comp" /\ _vnode.keepAlive
            /\ _vnode'.kind = "comp" /\ _vnode'.keepAlive
            /\ _vnode'.inst # _vnode.inst
            /\ InSeq(<<"activated", _vnode'.inst>>, fired') ) =>
               /\ fired'[Len(fired')] = <<"activated", _vnode'.inst>>
               /\ InSeq(<<"deactivated", _vnode.inst>>, fired') =>
                    FiredAt(fired', <<"deactivated", _vnode.inst>>)
                       < FiredAt(fired', <<"activated", _vnode'.inst>>)
       /\ (last' = Op("render", "miss") /\ _vnode'.inst = C15_New) =>
            /\ \A r \in {C15_Inserted(TRUE)} :
                 /\ r.queue = <<C15_New>>
                 /\ ~InSeq(<<"activated", C15_New>>, r.fired)
                 /\ \A flushed \in {callActivatedHooks(r)} :
                       /\ InSeq(<<"activated", C15_New>>, flushed.fired)
                       /\ flushed.insts[C15_New].inactive = "false"
            /\ \A r \in {C15_Inserted(FALSE)} :
                 /\ r.queue = <<>>
                 /\ r.fired = <<<<"created", C15_New>>, <<"mounted", C15_New>>,
                                <<"activated", C15_New>>>>
       /\ (~contextMounted /\ last'.op = "render" /\ _vnode'.kind = "comp"
             /\ _vnode'.keepAlive) =>
              fired' = <<<<"created", 1>>, <<"mounted", 1>>, <<"activated", 1>>>>]_vars

\* pageA has replaced home in the mounted tree: home was deactivated before
\* pageA was activated.
C15_Witness ==
    /\ last = Op("render", "miss")
    /\ contextMounted
    /\ slot = CompVnode("A", NoKey)
    /\ fired = <<<<"created", 2>>, <<"deactivated", 1>>, <<"mounted", 2>>,
                 <<"activated", 2>>>>

\* The instances that hold a view slot (Home), and whether the container
\* holds vm in its cache.
ViewHolders == DOMAIN views \ {NoInst}
CacheManaged(vm) == \E k \in AllKeys : cache[k].kind = "comp" /\ cache[k].inst = vm

\* What the slot at depth 1 resolves from a route.
Nested(rt) == IF Len(Matched(rt)) >= 2 THEN Matched(rt)[2] ELSE NoComp

\* A step in which the view slot of vm has rendered.
ViewPassed(vm) ==
    \/ last'.op = "navigate"
    \/ last' = Op("rerender", ToString(vm))

\* C16: while the cache-managed instance above a view slot is inactive, every
\* pass leaves the slot with the component and the node it resolved last,
\* whatever the route has become; a pass made once that instance is active
\* again resolves the component from the route of that moment.
C16_FrozenThenFresh ==
    [][\A vm \in ViewHolders :
         /\ (CacheManaged(vm) /\ insts'[vm].inactive = "true") =>
               /\ views'[vm] = views[vm]
               /\ \A i \in 1..Len(insts') :
                     insts'[i].parent = vm =>
                        /\ i <= Len(insts)
                        /\ insts'[i].destroyed = insts[i].destroyed
         /\ (ViewPassed(vm) /\ insts'[vm].inactive # "true") =>
               /\ views'[vm].cached = Nested(route')
               /\ views'[vm].shown = ViewVnode(Nested(route'))
                    \/ /\ views'[vm].shown.comp = Nested(route')
                       /\ views'[vm].shown.inst # NoInst
                       /\ ~insts'[views'[vm].shown.inst].destroyed]_vars

\* Home comes back from the cache on /home1 after it froze on home2: page-a
\* is deactivated, home2 destroyed and home1 created in the same flush.
C16_Witness ==
    /\ last = Op("navigate", "hit")
    /\ route = "/home1"
    /\ \E vm \in ViewHolders, a, old \in 1..Len(insts) :
          /\ _vnode.inst = vm
          /\ views[vm].cached = "Home1"
          /\ insts[a].comp = "A" /\ InSeq(<<"deactivated", a>>, fired)
          /\ insts[old].comp = "Home2" /\ InSeq(<<"destroyed", old>>, fired)

\* The callbacks of f that belong to the instances in vms, in order.
FiredOf(f, vms) == SelectSeq(f, LAMBDA e : e[2] \in vms)

\* Home is on display on /home2, with home2 in its view slot.
C17_Home == _vnode.inst
C17_OnHome2 ==
    /\ route = "/home2" /\ contextMounted
    /\ _vnode.kind = "comp" /\ _vnode.comp = "Home" /\ _vnode.keepAlive
    /\ insts[C17_Home].inactive = "false"
    /\ C17_Home \in ViewHolders
    /\ views[C17_Home].shown.kind = "comp"
    /\ views[C17_Home].shown.comp = "Home2"
    /\ ~insts[views[C17_Home].shown.inst].destroyed

\* pageA is on display and Home waits in the cache with home2 in its slot.
C17_CachedHome == cache[DerivedKey("Home", NoKey)].inst
C17_OnPageA ==
    /\ route = "/pageA"
    /\ _vnode.kind = "comp" /\ _vnode.comp = "A"
    /\ cache[DerivedKey("Home", NoKey)].kind = "comp"
    /\ C17_CachedHome \in ViewHolders
    /\ insts[C17_CachedHome].inactive = "true"
    /\ views[C17_CachedHome].shown.kind = "comp"
    /\ views[C17_CachedHome].shown.comp = "Home2"
    /\ ~insts[views[C17_CachedHome].shown.inst].destroyed

\* C17: with Home cache-managed and home2 in Home's view slot, leaving for
\* pageA fires deactivated for home2 and then for Home, coming back fires
\* deactivated for pageA and then activated for home2 and then for Home;
\* neither navigation fires created or destroyed for home2 or Home, and
\* home2 stays the instance in Home's slot.
C17_Home2Survives ==
    [][/\ (C17_OnHome2 /\ route' = "/pageA") =>
            LET h == C17_Home
                c == views[h].shown.inst
            IN  /\ FiredOf(fired', {h, c}) =
                      <<<<"deactivated", c>>, <<"deactivated", h>>>>
                /\ ~insts'[h].destroyed /\ ~insts'[c].destroyed
                /\ views'[h] = views[h]
       /\ (C17_OnPageA /\ route' = "/home2") =>
            LET a == _vnode.inst
                h == C17_CachedHome
                c == views[h].shown.inst
            IN  /\ fired' = <<<<"deactivated", a>>, <<"activated", c>>,
                              <<"activated", h>>>>
                /\ insts' = [insts EXCEPT ![a].inactive = "true",
                                          ![a].directInactive = TRUE,
                                          ![h].inactive = "false",
                                          ![h].directInactive = FALSE,
                                          ![c].inactive = "false"]
                /\ _vnode'.inst = h
                /\ views'[h] = views[h]]_vars

\* Back on /home2 from pageA: page-a deactivated, then home2 and Home
\* activated, and the instance in Home's slot is the home2 of before.
C17_Witness ==
    /\ last = Op("navigate", "hit")
    /\ route = "/home2"
    /\ \E h \in ViewHolders, a, c \in 1..Len(insts) :
          /\ _vnode.inst = h /\ insts[a].comp = "A" /\ insts[c].comp = "Home2"
          /\ views[h].shown.inst = c
          /\ fired = <<<<"deactivated", a>>, <<"activated", c>>, <<"activated", h>>>>

\* A render pass patches the displayed component node against the node of
\* the child offered now.
C18_Successive ==
    /\ last'.op = "render"
    /\ _vnode.kind = "comp" /\ slot'.kind = "comp"

\* Both nodes render the same component tag and carry no key.
C18_SameTagNoKey ==
    /\ C18_Successive
    /\ VnodeTag(_vnode.comp) = VnodeTag(slot'.comp)
    /\ _vnode.key = NoKey /\ slot'.key = NoKey

\* The two nodes carry different explicit keys.
C18_DifferentKeys ==
    /\ C18_Successive
    /\ _vnode.key # NoKey /\ slot'.key # NoKey /\ _vnode.key # slot'.key

\* No created and no destroyed callback in f.
NoCreateDestroy(f) == \A i \in 1..Len(f) : f[i][1] \notin {"created", "destroyed"}

\* The mounted instance is reused in place.
C18_ReusedInPlace ==
    /\ sameVnode(Node(_vnode), Node(slot'))
    /\ _vnode'.inst = _vnode.inst
    /\ Len(insts') = Len(insts)
    /\ NoCreateDestroy(fired')

\* The new node gets an instance created for it.
C18_FreshInstance ==
    /\ Len(insts') = Len(insts) + 1
    /\ _vnode'.inst = Len(insts')
    /\ InSeq(<<"created", _vnode'.inst>>, fired')

C19_TeardownDestroysAll ==
    [][last'.op = "destroyed" =>
         /\ \A k \in AllKeys : cache'[k] = NullVnode
         /\ keys' = <<>>
         /\ ~threw'
         /\ \A k \in Cached :
               /\ cache[k].inst # NoInst
               /\ insts'[cache[k].inst].destroyed
               /\ ~insts[cache[k].inst].destroyed =>
                     InSeq(<<"destroyed", cache[k].inst>>, fired')]_vars

\* C20: no operation of the container raises: entry teardown never requests
\* the destruction of an entry that has no mounted instance, whatever max,
\* include and exclude are.
C20_NoFatalFailure == ~threw


\* An instance is on display, or a cache entry holds it.
Displayed(vm) == _vnode.kind = "comp" /\ _vnode.inst = vm
HeldByCache(vm) == \E k \in Cached : cache[k].inst = vm

\* C21: while the container is alive, every instance created for one of its
\* children is displayed, held by a cache entry, or destroyed.
C21_NoLeakedInstance ==
    alive => \A vm \in 1..Len(insts) :
                Displayed(vm) \/ HeldByCache(vm) \/ insts[vm].destroyed


\* Entry teardown of the key k with the current node `current`, from the
\* state the container is in.
C22_Pruned(k, current) == pruneCacheEntry(KA(cache, keys, World(insts)), k, current)

\* The call asked the host to destroy the stored instance: the instance is
\* destroyed afterwards, and the destroyed callback fired unless an earlier
\* request had destroyed it.
C22_DestroyRequested(k, current) ==
    LET vm == cache[k].inst
        st == C22_Pruned(k, current)
    IN  /\ vm # NoInst
        /\ st.w.insts[vm].destroyed
        /\ insts[vm].destroyed \/ InSeq(<<"destroyed", vm>>, st.w.fired)

C22_NothingDestroyed(k, current) ==
    LET st == C22_Pruned(k, current)
    IN  st.w.insts = insts /\ st.w.fired = <<>> /\ ~st.threw

\* C22: entry teardown of a stored key, with no current node or with the
\* node on display as the current node, requests the destruction of the
\* stored instance if and only if no current node is supplied or the stored
\* node's tag differs from the current node's; in every case the key leaves
\* the mapping and the recency order.
C22_EntryTeardown ==
    \A k \in Cached : \A current \in {NullVnode, _vnode} :
        /\ IF current.kind = "null" \/ Node(cache[k]).tag # Node(current).tag
             THEN C22_DestroyRequested(k, current)
             ELSE C22_NothingDestroyed(k, current)
        /\ C22_Pruned(k, current).cache[k].kind = "null"
        /\ ~InSeq(k, C22_Pruned(k, current).keys)


\* x is vm or one of its descendants.
InSubtree(is, vm, x) == x = vm \/ IsAncestor(is, vm, x)

\* C23: activation that reaches an instance by propagation from an ancestor
\* never reactivates it while its _directInactive flag is set: on every step
\* other than its own direct activation, the instance and all its
\* descendants stay inactive and fire no activated callback.
C23_DirectInactiveStays ==
    [][\A d \in 1..Len(insts) :
        ( /\ insts[d].directInactive
          /\ last' # Op("activate", ToString(d)) ) =>
             /\ insts'[d].directInactive
             /\ \A x \in 1..Len(insts) :
                   InSubtree(insts, d, x) =>
                      /\ insts'[x].inactive = "true"
                      /\ ~InSeq(<<"activated", x>>, fired')]_vars

\* An ancestor was activated, and its propagation passed over a child that
\* had been deactivated directly and has a child of its own.
C23_Witness ==
    /\ last.op = "activate"
    /\ \E d, x \in 1..Len(insts) :
          LET a == insts[d].parent
          IN  /\ a # NoInst /\ last.res = ToString(a)
              /\ insts[x].parent = d
              /\ InSeq(<<"activated", a>>, fired)
              /\ insts[a].inactive = "false"
              /\ insts[d].directInactive /\ insts[d].inactive = "true"
              /\ insts[x].inactive = "true"


\* The number of times the callback e fired.
Count(f, e) == Cardinality({i \in 1..Len(f) : f[i] = e})

\* x was activated directly inside an inactive tree: the step fired no
\* activated callback, x stays inactive and its _directInactive is cleared.
C24_Stopped(x) ==
    ( /\ isInInactiveTree(insts, x)
      /\ last' = Op("activate", ToString(x)) ) =>
         /\ fired' = <<>>
         /\ insts'[x].inactive = "true"
         /\ ~insts'[x].directInactive

\* The inactive ancestor a of x is activated on this step.
C24_AncestorActivates(a, x) ==
    /\ IsAncestor(insts, a, x)
    /\ insts[a].inactive = "true"
    /\ last'.op = "activate"
    /\ InSeq(<<"activated", a>>, fired')

\* x becomes active on this step and its activated callback fires once.
C24_TurnComes(x) ==
    /\ insts'[x].inactive = "false"
    /\ Count(fired', <<"activated", x>>) = 1

\* An instance between a and x is flagged _directInactive.
C24_Blocked(a, x) ==
    \E b \in 1..Len(insts) :
        IsAncestor(insts, a, b) /\ IsAncestor(insts, b, x) /\ insts[b].directInactive

\* C24 as stated: an instance activated directly inside an inactive ancestor
\* fires no activated callback and stays inactive, and it becomes active,
\* firing activated once, when that ancestor is activated next.
C24_TurnOnAncestor ==
    [][\A x \in 1..Len(insts) :
        /\ C24_Stopped(x)
        /\ \A a \in 1..Len(insts) :
              ( /\ last = Op("activate", ToString(x)) /\ fired = <<>>
                /\ ~insts[x].directInactive /\ insts[x].inactive = "true"
                /\ C24_AncestorActivates(a, x) ) => C24_TurnComes(x)]_vars

\* C24, amended: the instance becomes active when the ancestor is activated
\* provided that its own _directInactive is still clear and no instance
\* between the two is flagged _directInactive; a flagged instance in between
\* keeps it inactive, with no activated callback.
C24_TurnOnAncestorUnlessBlocked ==
    [][\A x \in 1..Len(insts) :
        /\ C24_Stopped(x)
        /\ \A a \in 1..Len(insts) :
              ( /\ ~insts[x].directInactive /\ insts[x].inactive = "true"
                /\ C24_AncestorActivates(a, x) ) =>
                   IF C24_Blocked(a, x)
                     THEN /\ insts'[x].inactive = "true"
                          /\ ~InSeq(<<"activated", x>>, fired')
                     ELSE C24_TurnComes(x)]_vars

\* A grandchild activated directly inside its inactive grandparent became
\* active, after its parent, when the grandparent was activated on the next
\* step.
C24_Witness ==
    /\ last.op = "activate"
    /\ \E x \in 1..Len(insts) :
          LET p == insts[x].parent
              a == IF p = NoInst THEN NoInst ELSE insts[p].parent
          IN  /\ a # NoInst
              /\ last.res = ToString(a)
              /\ fired = <<<<"activated", x>>, <<"activated", p>>, <<"activated", a>>>>
              /\ insts[x].inactive = "false"


\* C25 as stated: in every state between two operations, no instance is
\* active (_inactive false) while one of its ancestors is inactive
\* (_inactive true).
C25_NoActiveUnderInactive ==
    \A x \in 1..Len(insts) :
        insts[x].inactive = "false" => ~isInInactiveTree(insts, x)

\* C25, amended: no instance that has not been destroyed is active while
\* one of its ancestors is inactive. A destroyed instance keeps the
\* _inactive it had and its $parent.
C25_NoLiveActiveUnderInactive ==
    \A x \in 1..Len(insts) :
        (~insts[x].destroyed /\ insts[x].inactive = "false") =>
            ~isInInactiveTree(insts, x)

\* The cached Home is inactive and so is the child its view slot holds,
\* while the page on display is active.
C25_Witness ==
    /\ last.op = "navigate"
    /\ _vnode.kind = "comp" /\ insts[_vnode.inst].inactive = "false"
    /\ \E a, x \in 1..Len(insts) :
          /\ insts[x].parent = a
          /\ ~insts[a].destroyed /\ ~insts[x].destroyed
          /\ insts[a].inactive = "true" /\ insts[x].inactive = "true"
          /\ InSeq(<<"deactivated", x>>, fired)


\* C26: after each completed render-and-patch cycle, every instance held in
\* the cache other than the one on display is inactive, so that at most one
\* cached instance is active and it is the one the container displays.
C26_OnlyDisplayedActive ==
    (alive /\ ~threw) =>
        \A k \in Cached :
            (cache[k].inst # NoInst /\ ~Displayed(cache[k].inst)) =>
                insts[cache[k].inst].inactive = "true"


\* The keys of an order, as a set.
KeySet(ks) == {ks[i] : i \in 1..Len(ks)}

\* render with `child` in the slot and mx as max, from the state the
\* container is in.
C27_Render(child, mx) ==
    render(KA(cache, keys, World(insts)), include, exclude, mx, _vnode, child)

\* What a hit leaves alone: the stored snapshots, the set of keys, the
\* instances; nothing is destroyed and nothing raises.
C27_Frame(r) ==
    /\ r.st.cache = cache
    /\ KeySet(r.st.keys) = KeySet(keys) /\ Len(r.st.keys) = Len(keys)
    /\ r.st.w.insts = insts /\ r.st.w.fired = <<>>
    /\ ~r.st.threw

\* C27: a cache hit changes only the recency order and the instance
\* reference of the new node, whatever the value of max: from every state,
\* for every child and every max, a render that hits makes the key the
\* freshest and returns the node with the cached instance, and the cached
\* keys, the stored snapshots and the instances are as before.
C27_HitFrame ==
    \A child \in Children : \A mx \in MaxValues :
        \A r \in {C27_Render(child, mx)} :
            r.res = "hit" =>
               /\ C27_Frame(r)
               /\ r.st.keys[Len(r.st.keys)] = r.key
               /\ r.vnode.inst = cache[r.key].inst
               /\ [r.vnode EXCEPT !.inst = NoInst, !.keepAlive = FALSE] = child

\* A render pass hit an entry of a cache that is full (max = 2, two
\* entries): both entries are still there, with live instances.
C27_Witness ==
    /\ last = Op("render", "hit")
    /\ max = Two /\ Len(keys) = 2
    /\ keys[2] = SlotKey
    /\ ~threw /\ Destroyed = {}


\* parent.$vnode.data when the instances in K are cache-managed.
C28_Data(K) ==
    [vm \in 1..Len(insts) |-> [routerView |-> TRUE, keepAlive |-> vm \in K]]

\* The view slot in the template of vm is frozen on a render pass.
C28_Frozen(K, vm, rt) ==
    RouterViewRender(insts, C28_Data(K), vm, rt, NoComp).inactive

\* The parent chain of the slot: the instance that holds it and its
\* ancestors.
C28_Chain(vm) == {a \in 1..Len(insts) : InSubtree(insts, a, vm)}

\* C28: a view slot is frozen on a render pass if and only if an instance on
\* its parent chain is cache-managed, _directInactive and inactive; an
\* ancestor that is inactive by propagation only, or that is not
\* cache-managed, does not freeze it.
C28_FrozenIff ==
    \A K \in SUBSET (1..Len(insts)) : \A vm \in 1..Len(insts) : \A rt \in Routes :
        C28_Frozen(K, vm, rt) <=>
            \E a \in C28_Chain(vm) :
                a \in K /\ insts[a].directInactive /\ insts[a].inactive = "true"

\* On a chain, an instance deactivated directly freezes the slot below it
\* when it is cache-managed; the instance under it, inactive by propagation,
\* does not, and neither does the first when it is not cache-managed.
C28_Witness ==
    \E a, b, vm \in 1..Len(insts) :
        /\ insts[b].parent = a /\ insts[vm].parent = b
        /\ insts[a].directInactive /\ insts[a].inactive = "true"
        /\ ~insts[b].directInactive /\ insts[b].inactive = "true"
        /\ ~insts[vm].directInactive
        /\ C28_Frozen({a}, vm, "/home1")
        /\ ~C28_Frozen({b, vm}, vm, "/home1")


\* A pass of the view slot in the template of vm, with $route = rt, from
\* the state the application is in.
C29_Pass(vm, rt) ==
    RouterViewRender(insts, VnodeData(insts, {_vnode} \cup CacheNodes(cache), TRUE),
                     vm, rt, ViewOf(views, vm).cached)

\* What route.matched holds at a depth.
C29_MatchedAt(rt, depth) ==
    IF depth + 1 <= Len(Matched(rt)) THEN Matched(rt)[depth + 1] ELSE NoComp

\* C29: a frozen pass of a view slot gives the same result whatever the
\* route is, renders the cached component (nothing when there is none) and
\* leaves the cache entry as it was; a pass that is not frozen stores the
\* component matched at the slot's depth, or clears the entry when nothing
\* matches there. The entry of a slot changes only in a step in which the
\* slot rendered unfrozen.
C29_FrozenLeavesEntry ==
    [][/\ \A vm \in DOMAIN views : \A rt \in Routes :
            \A r \in {C29_Pass(vm, rt)} :
               IF r.inactive
                 THEN /\ r.cached = ViewOf(views, vm).cached
                      /\ r.vnode = ViewVnode(ViewOf(views, vm).cached)
                      /\ r = C29_Pass(vm, route)
                 ELSE /\ r.cached = C29_MatchedAt(rt, r.depth)
                      /\ r.vnode = ViewVnode(r.cached)
       /\ \A vm \in ViewHolders :
            /\ (CacheManaged(vm) /\ insts'[vm].inactive = "true") =>
                  views'[vm].cached = views[vm].cached
            /\ views'[vm].cached # views[vm].cached =>
                  /\ ViewPassed(vm)
                  /\ insts'[vm].inactive # "true"
                  /\ views'[vm].cached = C29_MatchedAt(route', 1)]_vars

\* Home, frozen with home2 in its slot, rendered again on its own while the
\* route was /pageB: the entry still names home2.
C29_Witness ==
    /\ route = "/pageB"
    /\ \E vm \in ViewHolders :
          /\ last = Op("rerender", ToString(vm))
          /\ CacheManaged(vm) /\ insts[vm].inactive = "true"
          /\ views[vm].cached = "Home2"
          /\ views[vm].shown.comp = "Home2"
          /\ C29_Pass(vm, route).inactive


\* The first alternative: tags equal, both or neither a comment, both or
\* neither carrying data, input types matching.
C30_SameShape(a, b) ==
    /\ a.tag = b.tag
    /\ a.isComment <=> b.isComment
    /\ a.hasData <=> b.hasData
    /\ a.tag = "input" => a.inputType = b.inputType

\* C30 as stated: the same-node predicate is true exactly when the keys are
\* equal and the shapes agree, or both nodes are asynchronous placeholders
\* of the same pending factory with no recorded error.
C30_SameIffStated ==
    last.op = "sameVnode" =>
        ( last.res = "true" <=>
            \/ _vnode.key = slot.key /\ C30_SameShape(_vnode, slot)
            \/ /\ _vnode.isAsyncPlaceholder /\ slot.isAsyncPlaceholder
               /\ _vnode.asyncFactory = slot.asyncFactory
               /\ ~slot.asyncError )

\* C30, amended: the predicate is true exactly when the keys are equal and
\* either the shapes agree or the old node is an asynchronous placeholder
\* whose factory is the new node's factory, with no error recorded on it;
\* the new node need not be a placeholder.
C30_SameIffKeyAndEither ==
    last.op = "sameVnode" =>
        ( last.res = "true" <=>
            /\ _vnode.key = slot.key
            /\ \/ C30_SameShape(_vnode, slot)
               \/ /\ _vnode.isAsyncPlaceholder
                  /\ _vnode.asyncFactory = slot.asyncFactory
                  /\ ~slot.asyncError )

\* A placeholder and the resolved component of its factory, under one key,
\* were found to be the same node although their tags differ.
C30_Witness ==
    /\ last = Op("sameVnode", "true")
    /\ _vnode.key = slot.key
    /\ _vnode.isAsyncPlaceholder /\ _vnode.isComment /\ _vnode.tag = NoTag
    /\ ~slot.isAsyncPlaceholder /\ ~slot.isComment /\ slot.tag = "vue-component-2"
    /\ _vnode.asyncFactory = slot.asyncFactory /\ ~slot.asyncError


\* The instance that the entry of the child's key holds.
C31_Transplanted(child) == cache[C3_Key(child)].inst

\* C31: on every cache hit, whatever explicit keys the children carry, the
\* instance transplanted onto the new node was created from a child with
\* the same component constructor and tag as the child being rendered.
C31_HitSameConstructor ==
    [][\A child \in Children :
        ( /\ RenderPassed(child) /\ C10_Hits(child)
          /\ C31_Transplanted(child) # NoInst ) =>
             /\ Ctor(insts[C31_Transplanted(child)].comp) = Ctor(child.comp)
             /\ cache[C3_Key(child)].comp = child.comp]_vars

====
